---- MODULE Spec2Model ----
(***************************************************************************)
(* Friend-request subsystem of the Convo backend: the User and             *)
(* FriendRequest collections and the Express handlers that read and write  *)
(* them (signup, onboard, sendFriendRequest, acceptFriendRequest,          *)
(* getFriendRequests, getRecommendedUsers).                                *)
(* A handler is a sequence of steps, one per awaited database operation:   *)
(* a step performs the operation and runs the handler up to its next await *)
(* or to its response.  Steps of different handlers interleave freely.     *)
(* Around it: protectRoute and the handlers of /api/auth (signup in its    *)
(* steps, login, logout, me) with the browsers' cookies and the Stream     *)
(* users (SpecRouter, SpecAuth), a store that can fail a write of an       *)
(* accept (SpecFail), and the frontend's router with HomePage              *)
(* (SpecFrontend).                                                         *)
(***************************************************************************)
EXTENDS Integers, Sequences, FiniteSets, Bags, TLC

\* ------------------------------------------------------------------ bounds
MaxOps == 5            \* HTTP requests served in one behaviour
MaxBodyFriends == 1    \* length of a friends array carried by an onboard body
MaxLearners == 3       \* users the server can recommend

Ids == 1..MaxOps       \* every user is created by a signup request
None == "none"
Malformed == <<0, "bad">>   \* a path parameter that is no 24-digit hex string
CastError == 0
Clients == {"browser-1", "browser-2"}

\* ------------------------------------------------------------------ state
VARIABLES
    User,           \* the User collection: _id -> [friends, isOnboarded]
    FriendRequest,  \* the FriendRequest collection, in creation order
    handler,        \* the handler invocations in flight (a bag), each with its
                    \* position and local variables
    res,            \* the response sent by the last handler that answered
    ops,            \* number of requests received so far
    client,         \* each browser: its jwt cookie, and the last of its
                    \* signup, login and logout calls that succeeded
    StreamUser,     \* the ids of the users upserted into Stream
    location,       \* the path the frontend's router is at
    authData,       \* App: the state of the ["authUser"] query
    element,        \* App: the element <Routes> rendered for the location
    home,           \* HomePage: its React state
    posts           \* HomePage: the handleSendFriendRequest calls awaiting
                    \* their POST (a bag), each with the recommendedUsers
                    \* of the render it was created in

authVars == <<client, StreamUser>>
frontendVars == <<location, authData, element, home, posts>>
vars == <<User, FriendRequest, handler, res, ops, authVars, frontendVars>>

\* ------------------------------------------------------------- pure helpers
Range(s) == {s[i] : i \in 1..Len(s)}

\* The ids a request can name: those of the stored documents, one more that
\* names no document, and a string that is no ObjectId.  An id is written in
\* a URL path as 24 hex digits, in either case; req.user.id (the Mongoose
\* `id` virtual) is always the lower-case form.
IdStrings(n) == {<<i, c>> : i \in 1..(n + 1), c \in {"lc", "uc"}} \cup {Malformed}

toString(id) == <<id, "lc">>

\* Mongoose's cast of a string to an ObjectId: hex digits of either case
\* denote the same ObjectId; anything else is a CastError.
castObjectId(s) == IF s[2] \in {"lc", "uc"} THEN s[1] ELSE CastError

\* MongooseArray.includes(string): compares with each element's toString().
includes(arr, s) == \E i \in 1..Len(arr) : toString(arr[i]) = s

addToSetPush(arr, x) == Append(arr, x)

\* $addToSet
addToSet(arr, x) == IF x \in Range(arr) THEN arr ELSE Append(arr, x)

\* userSchema defaults
userSchema == [friends |-> <<>>, isOnboarded |-> FALSE]

friendRequestSchemaSwapped(s, r) == [sender |-> r, recipient |-> s, Status |-> "pending"]

\* friendRequestSchema: new FriendRequest({sender, recipient}); the schema
\* path is spelled `Status` and defaults to "pending".
friendRequestSchema(s, r) == [sender |-> s, recipient |-> r, Status |-> "pending"]

\* The local variable friendRequest of a handler that has loaded none.
NoDoc == [id |-> 0, sender |-> 0, recipient |-> 0, Status |-> None, status |-> None]

InFlight == BagToSet(handler)

\* An invocation starts, moves to its next await, or returns.
Start(inv) == handler' = handler (+) SetToBag({inv})
Move(inv, pc) == handler' = (handler (-) SetToBag({inv})) (+) SetToBag({[inv EXCEPT !.pc = pc]})
Return(inv) == handler' = handler (-) SetToBag({inv})

\* res.status(...).json({message}): every response body of these handlers is
\* an object with the single key `message`.
Respond(op, status, message) ==
    [op |-> op, status |-> status, body |-> [message |-> message]]

\* ------------------------------------------------------------------- Init
Init ==
    /\ User = <<>>
    /\ FriendRequest = <<>>
    /\ handler = EmptyBag
    /\ res = Respond(None, 0, None)
    /\ ops = 0
    /\ client = [c \in Clients |-> [cookie |-> [UserId |-> 0, sig |-> "none"], last |-> None]]
    /\ StreamUser = {}
    /\ location = "/"
    /\ authData = [status |-> "pending", user |-> 0]
    /\ element = [page |-> "Navigate", to |-> "/login"]
    /\ home = [recommendedUsers |-> {}, sendingRequestTo |-> 0, isLoading |-> TRUE]
    /\ posts = EmptyBag

\* The shape of the state: documents as their schemas declare them.
TypeOK ==
    /\ \A u \in DOMAIN User :
          /\ User[u].friends \in Seq(Ids)
          /\ User[u].isOnboarded \in BOOLEAN
    /\ Len(User) <= MaxOps
    /\ \A i \in DOMAIN FriendRequest :
          /\ FriendRequest[i].sender \in Ids
          /\ FriendRequest[i].recipient \in Ids
          /\ FriendRequest[i].Status \in {"pending", "accepted", "rejected"}
    /\ \A inv \in InFlight :
          /\ inv.op \in {"send", "accept", "getRecommendedUsers", "signup"}
          /\ inv.pc \in {"findExisting", "save", "updateSender", "updateRecipient", "find",
                        "create", "upsert"}
          /\ inv.user \in DOMAIN User \cup {0}
    /\ \A c \in Clients : client[c].cookie.sig \in {"none", "signed"}
    /\ StreamUser \subseteq DOMAIN User
    /\ location \in {"/", "/signup", "/login", "/notifications", "/onboarding", "/chat", "/call"}
    /\ home.recommendedUsers \subseteq 1..MaxLearners
    /\ res.status \in {0, 200, 201, 400, 401, 403, 404, 500}
    /\ ops \in 0..MaxOps

\* A request is received.
Receive ==
    /\ ops < MaxOps
    /\ ops' = ops + 1

\* ----------------------------------------------------------------- signup
\* User.create: a fresh _id, schema defaults.
signup ==
    /\ Receive
    /\ User' = Append(User, userSchema)
    /\ res' = Respond("signup", 201, "created")
    /\ UNCHANGED <<FriendRequest, handler>>

\* ---------------------------------------------------------------- onboard
\* Request bodies: the required profile fields are present or not, and the
\* body may carry a `friends` key (an array of ids), which `...req.body`
\* passes to findByIdAndUpdate along with the profile fields.
SeqsUpTo(n) == UNION {[1..k -> 1..(Len(User) + 1)] : k \in 0..n}
Bodies ==
    {[complete |-> c, hasFriends |-> FALSE, friends |-> <<>>] : c \in BOOLEAN}
    \cup [complete : BOOLEAN, hasFriends : {TRUE}, friends : SeqsUpTo(MaxBodyFriends)]

\* findByIdAndUpdate(userId, {...req.body, isOnboarded: true})
onboardUpdate(doc, body) ==
    [friends |-> IF body.hasFriends THEN body.friends ELSE doc.friends,
     isOnboarded |-> TRUE]

onboard(u, body) ==
    /\ Receive
    /\ IF ~body.complete
         THEN /\ res' = Respond("onboard", 400, "All fields are required")
              /\ UNCHANGED User
         ELSE /\ User' = [User EXCEPT ![u] = onboardUpdate(User[u], body)]
              /\ res' = Respond("onboard", 200, "onboarded")
    /\ UNCHANGED <<FriendRequest, handler>>

\* ------------------------------------------------------ sendFriendRequest
\* myId === recipientId: a comparison of the two strings
selfCheck(myId, recipientId) == myId = recipientId

\* Model.findById: the stored document, or null (here the empty set)
findById(coll, id) == IF id \in DOMAIN coll THEN {coll[id]} ELSE {}

recipientMissingSkipped(found) == FALSE

\* if (!recipient)
recipientMissing(found) == found = {}

alreadyFriendsSkipped(found, myId) == FALSE

\* recipient.friends.includes(myId)
alreadyFriends(found, myId) == \E doc \in found : includes(doc.friends, myId)

\* protectRoute has set req.user = u.  Validation 1, then
\* await User.findById(recipientId), then validations 2 and 3.
sendFriendRequest(u, recipientId) ==
    LET myId == toString(u)
        rid == castObjectId(recipientId)
        recipient == findById(User, rid)
        Answer(status, message) ==
            /\ res' = Respond("send", status, message)
            /\ UNCHANGED handler
    IN  /\ Receive
        /\ IF selfCheck(myId, recipientId)
             THEN Answer(400, "You cannot send a friend request to yourself.")
             ELSE IF rid = CastError
             THEN Answer(500, "CastError")
             ELSE IF recipientMissing(recipient)
             THEN Answer(404, "Recipient not found.")
             ELSE IF alreadyFriends(recipient, myId)
             THEN Answer(400, "You are already friends with this user.")
             ELSE /\ Start([op |-> "send", pc |-> "findExisting", user |-> u,
                            param |-> recipientId, doc |-> NoDoc])
                  /\ UNCHANGED res
        /\ UNCHANGED <<User, FriendRequest>>

existingRequestOneWay(a, b) ==
    {i \in 1..Len(FriendRequest) :
        FriendRequest[i].sender = a /\ FriendRequest[i].recipient = b}

\* FriendRequest.findOne({$or: [{sender: a, recipient: b}, {sender: b, recipient: a}]})
existingRequest(a, b) ==
    {i \in 1..Len(FriendRequest) :
        \/ FriendRequest[i].sender = a /\ FriendRequest[i].recipient = b
        \/ FriendRequest[i].sender = b /\ FriendRequest[i].recipient = a}

sendFindExistingSaveFirst(inv) ==
    /\ inv.op = "send" /\ inv.pc = "findExisting"
    /\ IF existingRequest(inv.user, castObjectId(inv.param)) # {}
         THEN /\ FriendRequest' = Append(FriendRequest,
                      friendRequestSchema(inv.user, castObjectId(inv.param)))
              /\ res' = Respond("send", 400, "A friend request already exists between you and this user.")
              /\ Return(inv)
         ELSE /\ Move(inv, "save")
              /\ UNCHANGED <<res, FriendRequest>>
    /\ UNCHANGED <<User, ops>>

\* await FriendRequest.findOne(...), then validation 4.
sendFindExisting(inv) ==
    /\ inv.op = "send" /\ inv.pc = "findExisting"
    /\ IF existingRequest(inv.user, castObjectId(inv.param)) # {}
         THEN /\ res' = Respond("send", 400, "A friend request already exists between you and this user.")
              /\ Return(inv)
         ELSE /\ Move(inv, "save")
              /\ UNCHANGED res
    /\ UNCHANGED <<User, FriendRequest, ops>>

\* await friendRequest.save(), then the 201 response.
sendSave(inv) ==
    /\ inv.op = "send" /\ inv.pc = "save"
    /\ FriendRequest' = Append(FriendRequest, friendRequestSchema(inv.user, castObjectId(inv.param)))
    /\ res' = Respond("send", 201, "Friend request sent successfully.")
    /\ Return(inv)
    /\ UNCHANGED <<User, ops>>

\* ---------------------------------------------------- acceptFriendRequest
\* Request ids as written in the path: a stored request's id, the id of no
\* stored request, or a string that is no ObjectId.
RequestIdStrings == IdStrings(Len(FriendRequest))

\* if (!friendRequest)
requestMissing(found) == found = {}

mayAcceptSender(doc, myId) == toString(doc.recipient) = myId \/ toString(doc.sender) = myId

\* friendRequest.recipient.toString() !== req.user.id  ->  403
mayAccept(doc, myId) == toString(doc.recipient) = myId

\* acceptFriendRequest with the two validations folded into one test.
acceptFriendRequestOneTest(u, requestId) ==
    LET id == castObjectId(requestId)
        Answer(status, message) ==
            /\ res' = Respond("accept", status, message)
            /\ UNCHANGED handler
    IN  /\ Receive
        /\ IF id = CastError
             THEN Answer(500, "CastError")
             ELSE IF \/ requestMissing(findById(FriendRequest, id))
                     \/ ~mayAccept(FriendRequest[id], toString(u))
             THEN Answer(403, "You are not authorized to accept this friend request")
             ELSE /\ Start([op |-> "accept", pc |-> "save", user |-> u, param |-> requestId,
                            doc |-> [id |-> id,
                                     sender |-> FriendRequest[id].sender,
                                     recipient |-> FriendRequest[id].recipient,
                                     Status |-> FriendRequest[id].Status,
                                     status |-> "accepted"]])
                  /\ UNCHANGED res
        /\ UNCHANGED <<User, FriendRequest>>

\* await FriendRequest.findById(requestId), validations 1 and 2, then the
\* assignment friendRequest.status = "accepted" on the loaded document: it
\* creates the property `status` beside the schema path `Status`.
acceptFriendRequest(u, requestId) ==
    LET id == castObjectId(requestId)
        Answer(status, message) ==
            /\ res' = Respond("accept", status, message)
            /\ UNCHANGED handler
    IN  /\ Receive
        /\ IF id = CastError
             THEN Answer(500, "CastError")
             ELSE IF requestMissing(findById(FriendRequest, id))
             THEN Answer(404, "Friend request not found")
             ELSE IF ~mayAccept(FriendRequest[id], toString(u))
             THEN Answer(403, "You are not authorized to accept this friend request")
             ELSE /\ Start([op |-> "accept", pc |-> "save", user |-> u, param |-> requestId,
                            doc |-> [id |-> id,
                                     sender |-> FriendRequest[id].sender,
                                     recipient |-> FriendRequest[id].recipient,
                                     Status |-> FriendRequest[id].Status,
                                     status |-> "accepted"]])
                  /\ UNCHANGED res
        /\ UNCHANGED <<User, FriendRequest>>

\* What save() writes: the schema paths of the document (sender, recipient,
\* Status).  A property that is not a schema path is never written.
savedPaths(doc) ==
    [sender |-> doc.sender, recipient |-> doc.recipient, Status |-> doc.Status]

\* await friendRequest.save()
acceptSave(inv) ==
    /\ inv.op = "accept" /\ inv.pc = "save"
    /\ FriendRequest' = [FriendRequest EXCEPT ![inv.doc.id] = savedPaths(inv.doc)]
    /\ Move(inv, "updateSender")
    /\ UNCHANGED <<User, res, ops>>

\* User.findByIdAndUpdate(id, {$addToSet: {friends: x}}); no such user: no write
findByIdAndUpdateAddFriend(coll, id, x) ==
    IF id \in DOMAIN coll
      THEN [coll EXCEPT ![id].friends = addToSet(coll[id].friends, x)]
      ELSE coll

\* await User.findByIdAndUpdate(friendRequest.sender, ...)
acceptUpdateSender(inv) ==
    /\ inv.op = "accept" /\ inv.pc = "updateSender"
    /\ User' = findByIdAndUpdateAddFriend(User, inv.doc.sender, inv.doc.recipient)
    /\ Move(inv, "updateRecipient")
    /\ UNCHANGED <<FriendRequest, res, ops>>

\* await User.findByIdAndUpdate(friendRequest.recipient, ...), then the 200
acceptUpdateRecipient(inv) ==
    /\ inv.op = "accept" /\ inv.pc = "updateRecipient"
    /\ User' = findByIdAndUpdateAddFriend(User, inv.doc.recipient, inv.doc.sender)
    /\ res' = Respond("accept", 200, "Friend request accepted")
    /\ Return(inv)
    /\ UNCHANGED <<FriendRequest, ops>>

\* ------------------------------------------------------ getFriendRequests
\* A query filter {path: value} matches a stored document that has the path
\* with that value.  Mongoose 9 passes a filter on a path the schema does not
\* declare through to the store (strictQuery is false by default).
matches(doc, path, value) == path \in DOMAIN doc /\ doc[path] = value

\* FriendRequest.find({recipient: req.user.id, status: "pending"}): the ids
\* of the stored requests the filter matches.
findIncoming(myId) ==
    {i \in DOMAIN FriendRequest :
        /\ toString(FriendRequest[i].recipient) = myId
        /\ matches(FriendRequest[i], "status", "pending")}

\* await FriendRequest.find(...), then res.status(200).json({friendRequests})
getFriendRequests(u) ==
    /\ Receive
    /\ res' = [op |-> "getFriendRequests", status |-> 200,
               body |-> [friendRequests |-> findIncoming(toString(u))]]
    /\ UNCHANGED <<User, FriendRequest, handler>>

\* ---------------------------------------------------- getRecommendedUsers
\* protectRoute: await User.findById(decoded.UserId); req.user = user.  The
\* handler then builds its query from req.user.id and req.user.friends and
\* awaits it.
getRecommendedUsers(u) ==
    /\ Receive
    /\ Start([op |-> "getRecommendedUsers", pc |-> "find", user |-> u,
              friends |-> User[u].friends])
    /\ UNCHANGED <<User, FriendRequest, res>>

findRecommendedNoFriendFilter(currentUserId, currentFriends) ==
    {v \in DOMAIN User : toString(v) # currentUserId /\ User[v].isOnboarded}

\* User.find({$and: [{_id: {$ne: currentUserId}},
\*                   {_id: {$nin: currentUser.friends}}, {isOnboarded: true}]})
findRecommended(currentUserId, currentFriends) ==
    {v \in DOMAIN User :
        /\ toString(v) # currentUserId
        /\ v \notin Range(currentFriends)
        /\ User[v].isOnboarded}

\* await User.find(...), then res.status(200).json({recommendedUsers})
recommendedFind(inv) ==
    /\ inv.op = "getRecommendedUsers" /\ inv.pc = "find"
    /\ res' = [op |-> "getRecommendedUsers", status |-> 200,
               body |-> [recommendedUsers |->
                            findRecommended(toString(inv.user), inv.friends)]]
    /\ Return(inv)
    /\ UNCHANGED <<User, FriendRequest, ops>>

\* ------------------------------------------------------------------- Next
\* The handlers of /api/users touch neither a cookie nor Stream, and the
\* backend does not reach into the frontend.
Elsewhere == UNCHANGED <<authVars, frontendVars>>

Next ==
    \/ signup /\ Elsewhere
    \/ \E u \in DOMAIN User, body \in Bodies : onboard(u, body) /\ Elsewhere
    \/ \E u \in DOMAIN User, s \in IdStrings(Len(User)) : sendFriendRequest(u, s)
           /\ Elsewhere
    \/ \E inv \in InFlight : sendFindExisting(inv) /\ Elsewhere
    \/ \E inv \in InFlight : sendSave(inv) /\ Elsewhere
    \/ \E u \in DOMAIN User, s \in RequestIdStrings : acceptFriendRequest(u, s)
           /\ Elsewhere
    \/ \E inv \in InFlight : acceptSave(inv) /\ Elsewhere
    \/ \E inv \in InFlight : acceptUpdateSender(inv) /\ Elsewhere
    \/ \E inv \in InFlight : acceptUpdateRecipient(inv) /\ Elsewhere

Spec == Init /\ [][Next]_vars

\* Handlers run one at a time: a request is received only while no handler
\* is in flight.
SeqNext ==
    \/ InFlight = {} /\ signup /\ Elsewhere
    \/ InFlight = {} /\ \E u \in DOMAIN User, body \in Bodies : onboard(u, body)
           /\ Elsewhere
    \/ InFlight = {} /\ \E u \in DOMAIN User, s \in IdStrings(Len(User)) :
                            sendFriendRequest(u, s)
           /\ Elsewhere
    \/ \E inv \in InFlight : sendFindExisting(inv) /\ Elsewhere
    \/ \E inv \in InFlight : sendSave(inv) /\ Elsewhere
    \/ InFlight = {} /\ \E u \in DOMAIN User, s \in RequestIdStrings :
                            acceptFriendRequest(u, s)
           /\ Elsewhere
    \/ \E inv \in InFlight : acceptSave(inv) /\ Elsewhere
    \/ \E inv \in InFlight : acceptUpdateSender(inv) /\ Elsewhere
    \/ \E inv \in InFlight : acceptUpdateRecipient(inv) /\ Elsewhere

SpecSeq == Init /\ [][SeqNext]_vars

\* The handlers above together with the two list handlers.
ListNext ==
    \/ signup /\ Elsewhere
    \/ \E u \in DOMAIN User, body \in Bodies : onboard(u, body) /\ Elsewhere
    \/ \E u \in DOMAIN User, s \in IdStrings(Len(User)) : sendFriendRequest(u, s)
           /\ Elsewhere
    \/ \E inv \in InFlight : sendFindExisting(inv) /\ Elsewhere
    \/ \E inv \in InFlight : sendSave(inv) /\ Elsewhere
    \/ \E u \in DOMAIN User, s \in RequestIdStrings : acceptFriendRequest(u, s)
           /\ Elsewhere
    \/ \E inv \in InFlight : acceptSave(inv) /\ Elsewhere
    \/ \E inv \in InFlight : acceptUpdateSender(inv) /\ Elsewhere
    \/ \E inv \in InFlight : acceptUpdateRecipient(inv) /\ Elsewhere
    \/ \E u \in DOMAIN User : getFriendRequests(u) /\ Elsewhere
    \/ \E u \in DOMAIN User : getRecommendedUsers(u) /\ Elsewhere
    \/ \E inv \in InFlight : recommendedFind(inv) /\ Elsewhere

SpecList == Init /\ [][ListNext]_vars

\* ----------------------------------------------------------- storage failure
\* acceptFriendRequest awaits its three writes outside any try: a write the
\* store rejects writes nothing, its promise rejects, the handler ends
\* there and Express answers 500.
storageFails(inv) ==
    /\ inv.op = "accept"
    /\ inv.pc \in {"save", "updateSender", "updateRecipient"}
    /\ res' = Respond("accept", 500, "Internal Server Error")
    /\ Return(inv)
    /\ UNCHANGED <<User, FriendRequest, ops>>

\* Handlers one at a time, friends written by accepts only, and a store
\* that can fail a write of an accept.
FailNext ==
    \/ InFlight = {} /\ signup /\ Elsewhere
    \/ InFlight = {} /\ \E u \in DOMAIN User, s \in IdStrings(Len(User)) :
                            sendFriendRequest(u, s)
           /\ Elsewhere
    \/ \E inv \in InFlight : sendFindExisting(inv) /\ Elsewhere
    \/ \E inv \in InFlight : sendSave(inv) /\ Elsewhere
    \/ InFlight = {} /\ \E u \in DOMAIN User, s \in RequestIdStrings :
                            acceptFriendRequest(u, s)
           /\ Elsewhere
    \/ \E inv \in InFlight : acceptSave(inv) /\ Elsewhere
    \/ \E inv \in InFlight : acceptUpdateSender(inv) /\ Elsewhere
    \/ \E inv \in InFlight : acceptUpdateRecipient(inv) /\ Elsewhere
    \/ \E inv \in InFlight : storageFails(inv) /\ Elsewhere

SpecFail == Init /\ [][FailNext]_vars

\* ------------------------------------------------------------ protectRoute
\* req.cookies.jwt: absent, or a token naming a user.  A token is signed by
\* this server (jwt.sign in signup and login, for a stored user), signed by
\* this server and past its expiresIn, or made by somebody without the key.
NoToken == [UserId |-> 0, sig |-> "none"]
Tokens ==
    {NoToken} \cup
    {[UserId |-> u, sig |-> g] : u \in DOMAIN User, g \in {"signed", "expired", "forged"}}

jwtDecode(token) == TRUE

\* jwt.verify(token, JWT_SECRET_KEY) returns the payload of a token that
\* carries this server's signature and has not expired, and throws otherwise.
jwtVerify(token) == token.sig = "signed"

\* protectRoute: 401 without a cookie, 401 from the catch when jwt.verify
\* throws, 401 when User.findById finds nobody; else req.user = user; next().
protectRoute(token) ==
    IF token.sig = "none"
    THEN [status |-> 401, message |-> "Not authenticated", user |-> 0]
    ELSE IF ~jwtVerify(token)
    THEN [status |-> 401, message |-> "Invalid token", user |-> 0]
    ELSE IF token.UserId \notin DOMAIN User
    THEN [status |-> 401, message |-> "User not found", user |-> 0]
    ELSE [status |-> 0, message |-> None, user |-> token.UserId]

\* router.use(protectRoute) in front of the routes of /api/users: a request
\* is answered by protectRoute, or reaches its handler with req.user.
usersRoute(token) ==
    LET auth == protectRoute(token) IN
    \/ /\ auth.status = 401
       /\ Receive
       /\ res' = Respond("protectRoute", 401, auth.message)
       /\ UNCHANGED <<User, FriendRequest, handler>>
    \/ /\ auth.status = 0
       /\ \E s \in IdStrings(Len(User)) : sendFriendRequest(auth.user, s)
    \/ /\ auth.status = 0
       /\ \E s \in RequestIdStrings : acceptFriendRequest(auth.user, s)
    \/ /\ auth.status = 0
       /\ getFriendRequests(auth.user)
    \/ /\ auth.status = 0
       /\ getRecommendedUsers(auth.user)

\* The routes of /api/users behind protectRoute, with signup.
RouterNext ==
    \/ signup /\ Elsewhere
    \/ \E token \in Tokens : usersRoute(token) /\ Elsewhere
    \/ \E inv \in InFlight : sendFindExisting(inv) /\ Elsewhere
    \/ \E inv \in InFlight : sendSave(inv) /\ Elsewhere
    \/ \E inv \in InFlight : acceptSave(inv) /\ Elsewhere
    \/ \E inv \in InFlight : acceptUpdateSender(inv) /\ Elsewhere
    \/ \E inv \in InFlight : acceptUpdateRecipient(inv) /\ Elsewhere
    \/ \E inv \in InFlight : recommendedFind(inv) /\ Elsewhere

SpecRouter == Init /\ [][RouterNext]_vars

\* ------------------------------------------------------------- /api/auth
\* Request bodies of signup and login.  An email is missing (the empty
\* string) or one of Emails, which pass emailRegex; a password is one of
\* Passwords, which have eight characters or more.  A signup registers
\* the first password, a login tries either.
Emails == {"a@convo.io", "b@convo.io"}
Passwords == {"password-1", "password-2"}
Missing == ""

\* userSchema.pre("save"): bcrypt.hash; matchPassword: bcrypt.compare.
bcryptHash(password) == <<"bcrypt", password>>
matchPassword(doc, password) == doc.password = bcryptHash(password)

\* User.findOne({email}): the ids of the stored users with that email.
findOne(email) == {u \in DOMAIN User : matches(User[u], "email", email)}

uniqueIndexAbsent(email) == FALSE

\* email: {unique: true}: the store refuses a second document with an
\* email it holds (a duplicate key error, thrown by User.create).
duplicateKey(email) == findOne(email) # {}

\* jwt.sign({UserId}, JWT_SECRET_KEY, {expiresIn: "7d"})
jwtSign(u) == [UserId |-> u, sig |-> "signed"]

\* res.cookie("jwt", token, {maxAge, httpOnly, sameSite}) as the browser
\* that sent the request stores it; `call` is the call that set it.
setCookie(c, token, call) == client' = [client EXCEPT ![c] = [cookie |-> token, last |-> call]]

\* signup up to its first await: the required-fields test, then
\* User.findOne({email}) and the 400 for a registered email.
signup1(c, email, password) ==
    /\ Receive
    /\ IF email = Missing
       THEN /\ res' = Respond("signup", 400, "All fields are required")
            /\ UNCHANGED handler
       ELSE IF findOne(email) # {}
       THEN /\ res' = Respond("signup", 400, "Email is already registered")
            /\ UNCHANGED handler
       ELSE /\ Start([op |-> "signup", pc |-> "create", user |-> 0, client |-> c,
                      email |-> email, password |-> password])
            /\ UNCHANGED res
    /\ UNCHANGED <<User, FriendRequest, authVars>>

\* await User.create({email, password, ...}): the document is stored with
\* the schema's defaults and the hashed password, or the store throws and
\* the outer catch answers 500.
signupCreate(inv) ==
    /\ inv.op = "signup" /\ inv.pc = "create"
    /\ IF duplicateKey(inv.email)
       THEN /\ res' = Respond("signup", 500, "Internal Server Error")
            /\ Return(inv)
            /\ UNCHANGED User
       ELSE /\ User' = Append(User, [friends |-> userSchema.friends,
                                      isOnboarded |-> userSchema.isOnboarded,
                                      email |-> inv.email,
                                      password |-> bcryptHash(inv.password)])
            /\ handler' = (handler (-) SetToBag({inv})) (+)
                          SetToBag({[inv EXCEPT !.pc = "upsert", !.user = Len(User) + 1]})
            /\ UNCHANGED res
    /\ UNCHANGED <<FriendRequest, ops, authVars>>

\* try { await upsertStreamUser(...) } catch { console.log }: the upsert
\* reaches Stream or fails, and signup goes on either way: jwt.sign,
\* res.cookie, res.status(201).json({success: true, user: newUser}).
signupUpsert(inv) ==
    /\ inv.op = "signup" /\ inv.pc = "upsert"
    /\ \E upserted \in BOOLEAN :
          StreamUser' = IF upserted THEN StreamUser \cup {inv.user} ELSE StreamUser
    /\ setCookie(inv.client, jwtSign(inv.user), "signup")
    /\ res' = [op |-> "signup", status |-> 201,
               body |-> [success |-> TRUE, user |-> inv.user]]
    /\ Return(inv)
    /\ UNCHANGED <<User, FriendRequest, ops>>

loginResultTelling(email, password) ==
    IF email = Missing
    THEN [status |-> 400, message |-> "All fields are required", cookie |-> NoToken]
    ELSE IF findOne(email) = {}
    THEN [status |-> 401, message |-> "User not found", cookie |-> NoToken]
    ELSE LET u == CHOOSE u \in findOne(email) : TRUE IN
         IF ~matchPassword(User[u], password)
         THEN [status |-> 401, message |-> "Invalid email or password", cookie |-> NoToken]
         ELSE [status |-> 200, message |-> None, cookie |-> jwtSign(u)]

\* login: what the response carries (status, message, Set-Cookie) for a
\* body, in the current store.
loginResult(email, password) ==
    IF email = Missing
    THEN [status |-> 400, message |-> "All fields are required", cookie |-> NoToken]
    ELSE IF findOne(email) = {}
    THEN [status |-> 401, message |-> "Invalid email or password", cookie |-> NoToken]
    ELSE LET u == CHOOSE u \in findOne(email) : TRUE IN
         IF ~matchPassword(User[u], password)
         THEN [status |-> 401, message |-> "Invalid email or password", cookie |-> NoToken]
         ELSE [status |-> 200, message |-> None, cookie |-> jwtSign(u)]

login(c, email, password) ==
    LET r == loginResult(email, password) IN
    /\ Receive
    /\ IF r.status = 200
       THEN /\ setCookie(c, r.cookie, "login")
            /\ res' = [op |-> "login", status |-> 200,
                       body |-> [success |-> TRUE, user |-> r.cookie.UserId]]
       ELSE /\ res' = Respond("login", r.status, r.message)
            /\ UNCHANGED client
    /\ UNCHANGED <<User, FriendRequest, handler, StreamUser>>

logoutKeepsCookie(c) ==
    /\ Receive
    /\ client' = [client EXCEPT ![c].last = "logout"]
    /\ res' = Respond("logout", 200, "Logged out successfully")
    /\ UNCHANGED <<User, FriendRequest, handler, StreamUser>>

\* logout: res.clearCookie("jwt"), 200.  The route has no protectRoute.
logout(c) ==
    /\ Receive
    /\ setCookie(c, NoToken, "logout")
    /\ res' = Respond("logout", 200, "Logged out successfully")
    /\ UNCHANGED <<User, FriendRequest, handler, StreamUser>>

\* GET /api/auth/me: protectRoute, then the handler answers req.user.  The
\* browser sends the cookie it holds.
me(c) ==
    LET auth == protectRoute(client[c].cookie) IN
    /\ Receive
    /\ res' = IF auth.status = 401
              THEN Respond("protectRoute", 401, auth.message)
              ELSE [op |-> "me", status |-> 200,
                    body |-> [success |-> TRUE, user |-> auth.user]]
    /\ UNCHANGED <<User, FriendRequest, handler, authVars>>

\* maxAge: 7 * 24 * 60 * 1000: the browser drops the cookie once it is that
\* many milliseconds old.
cookieExpires(c) ==
    /\ client[c].cookie # NoToken
    /\ client' = [client EXCEPT ![c].cookie = NoToken]
    /\ UNCHANGED <<User, FriendRequest, handler, res, ops, StreamUser>>

AuthNext ==
    \/ \E c \in Clients, email \in Emails \cup {Missing} :
          signup1(c, email, "password-1") /\ UNCHANGED frontendVars
    \/ \E inv \in InFlight : signupCreate(inv) /\ UNCHANGED frontendVars
    \/ \E inv \in InFlight : signupUpsert(inv) /\ UNCHANGED frontendVars
    \/ \E c \in Clients, email \in Emails \cup {Missing}, password \in Passwords :
          login(c, email, password) /\ UNCHANGED frontendVars
    \/ \E c \in Clients : logout(c) /\ UNCHANGED frontendVars
    \/ \E c \in Clients : me(c) /\ UNCHANGED frontendVars
    \/ \E c \in Clients : cookieExpires(c) /\ UNCHANGED frontendVars

SpecAuth == Init /\ [][AuthNext]_vars

\* ---------------------------------------------------------------- App.jsx
Paths == {"/", "/signup", "/login", "/notifications", "/onboarding", "/chat", "/call"}
Learners == 1..MaxLearners

\* const authUser = authData?.user: undefined (0) until the query has data.
authUser(data) == IF data.status = "success" THEN data.user ELSE 0

Page(name) == [page |-> name, to |-> None]
Navigate(to) == [page |-> "Navigate", to |-> to]

RoutesHomeOpen(path, user) ==
    CASE path = "/" -> Page("HomePage")
      [] path = "/signup" -> IF user = 0 THEN Page("SignupPage") ELSE Navigate("/")
      [] path = "/login" -> IF user = 0 THEN Page("LoginPage") ELSE Navigate("/")
      [] path = "/notifications" -> IF user # 0 THEN Page("NotificationsPage") ELSE Navigate("/login")
      [] path = "/onboarding" -> IF user # 0 THEN Page("OnboardingPage") ELSE Navigate("/login")
      [] path = "/chat" -> IF user # 0 THEN Page("ChatPage") ELSE Navigate("/login")
      [] path = "/call" -> IF user # 0 THEN Page("CallPage") ELSE Navigate("/login")

\* <Routes>: the element of the route that matches the path.
Routes(path, user) ==
    CASE path = "/" -> IF user # 0 THEN Page("HomePage") ELSE Navigate("/login")
      [] path = "/signup" -> IF user = 0 THEN Page("SignupPage") ELSE Navigate("/")
      [] path = "/login" -> IF user = 0 THEN Page("LoginPage") ELSE Navigate("/")
      [] path = "/notifications" -> IF user # 0 THEN Page("NotificationsPage") ELSE Navigate("/login")
      [] path = "/onboarding" -> IF user # 0 THEN Page("OnboardingPage") ELSE Navigate("/login")
      [] path = "/chat" -> IF user # 0 THEN Page("ChatPage") ELSE Navigate("/login")
      [] path = "/call" -> IF user # 0 THEN Page("CallPage") ELSE Navigate("/login")

\* useState([]), useState(null), useState(true): the state HomePage mounts with.
HomeInit == [recommendedUsers |-> {}, sendingRequestTo |-> 0, isLoading |-> TRUE]

\* App renders for a location and a query state.  A HomePage that stays
\* on screen keeps its state; one that is mounted starts from HomeInit and
\* the calls of an unmounted one no longer set any state.
render(path, data) ==
    /\ location' = path
    /\ authData' = data
    /\ element' = Routes(path, authUser(data))
    /\ IF element.page = "HomePage" /\ element'.page = "HomePage"
       THEN UNCHANGED <<home, posts>>
       ELSE home' = HomeInit /\ posts' = EmptyBag

Backstage == UNCHANGED <<User, FriendRequest, handler, res, ops, authVars>>

\* The browser loads the application at a path: the query starts.
load(path) ==
    /\ render(path, [status |-> "pending", user |-> 0])
    /\ Backstage

\* GET /api/auth/me answers: data {user}, or an error (retry: false).
authSettles(data) ==
    /\ authData.status = "pending"
    /\ render(location, data)
    /\ Backstage

\* A link, or navigate(path), inside the application.
goto(path) ==
    /\ render(path, authData)
    /\ Backstage

\* <Navigate to=.../> changes the location once it is rendered.
redirect ==
    /\ element.page = "Navigate"
    /\ render(element.to, authData)
    /\ Backstage

\* ------------------------------------------------------------- HomePage.jsx
\* fetchData: Promise.all of three GETs; setRecommendedUsers(...) with the
\* list the server answered, then setIsLoading(false).
fetchData(list) ==
    /\ element.page = "HomePage" /\ home.isLoading
    /\ home' = [home EXCEPT !.recommendedUsers = list, !.isLoading = FALSE]
    /\ UNCHANGED <<location, authData, element, posts>>
    /\ Backstage

\* fetchData's catch: a 401 navigates to /login, another error only toasts.
fetchDataFails(status) ==
    /\ element.page = "HomePage" /\ home.isLoading
    /\ IF status = 401
       THEN render("/login", authData)
       ELSE /\ home' = [home EXCEPT !.isLoading = FALSE]
            /\ UNCHANGED <<location, authData, element, posts>>
    /\ Backstage

\* A click on the button of a recommended user (disabled for the user in
\* sendingRequestTo): handleSendFriendRequest up to its await.  The handler
\* is the one of the current render and holds that render's
\* recommendedUsers.
handleSendFriendRequest(userId) ==
    /\ element.page = "HomePage" /\ ~home.isLoading
    /\ userId \in home.recommendedUsers
    /\ home.sendingRequestTo # userId
    /\ Receive
    /\ home' = [home EXCEPT !.sendingRequestTo = userId]
    /\ posts' = posts (+) SetToBag({[userId |-> userId,
                                     recommendedUsers |-> home.recommendedUsers]})
    /\ UNCHANGED <<location, authData, element>>
    /\ UNCHANGED <<User, FriendRequest, handler, res, authVars>>

\* The POST answers.  2xx: setRecommendedUsers(recommendedUsers.filter(
\* user => user._id !== userId)); an error: a toast; finally
\* setSendingRequestTo(null).
postSettles(call, ok) ==
    /\ call \in BagToSet(posts)
    /\ posts' = posts (-) SetToBag({call})
    /\ home' = [home EXCEPT
                  !.recommendedUsers =
                      IF ok THEN call.recommendedUsers \ {call.userId} ELSE @,
                  !.sendingRequestTo = 0]
    /\ UNCHANGED <<location, authData, element>>
    /\ Backstage

FrontendNext ==
    \/ \E path \in Paths : load(path)
    \/ \E data \in {[status |-> "error", user |-> 0]} \cup
                   {[status |-> "success", user |-> u] : u \in Learners} :
          authSettles(data)
    \/ \E path \in Paths : goto(path)
    \/ redirect
    \/ \E list \in SUBSET Learners : fetchData(list)
    \/ \E status \in {401, 500} : fetchDataFails(status)
    \/ \E userId \in Learners : handleSendFriendRequest(userId)
    \/ \E call \in BagToSet(posts), ok \in BOOLEAN : postSettles(call, ok)

SpecFrontend == Init /\ [][FrontendNext]_vars

\* ================================================================== claims
friends(u) == Range(User[u].friends)

SamePair(i, j) ==
    {FriendRequest[i].sender, FriendRequest[i].recipient}
        = {FriendRequest[j].sender, FriendRequest[j].recipient}

Pending(i) == FriendRequest[i].Status = "pending"

\* Some stored request has a as sender and b as recipient, or b and a.
RequestBetween(a, b) ==
    \E i \in DOMAIN FriendRequest :
        {FriendRequest[i].sender, FriendRequest[i].recipient} = {a, b}

\* The id a send invocation was given, as an ObjectId.
SendTarget(inv) == castObjectId(inv.param)

\* The step starts a send invocation of u for the path id s and leaves it at
\* its lookup of an existing request.
SendGoesOn(u, s) ==
    handler' = handler (+) SetToBag({[op |-> "send", pc |-> "findExisting",
                                      user |-> u, param |-> s, doc |-> NoDoc]})

\* The step answers the request it receives at once.
AnsweredAtOnce == handler' = handler

\* The step receives a request.
Received == ops' = ops + 1

\* C1: in every reachable state, interleaved sendFriendRequest handlers
\* included, at most one pending FriendRequest exists for any unordered pair
\* of users (stated here for pairs of two different users).
C1_OnePendingPerPair ==
    \A i, j \in DOMAIN FriendRequest :
        ( /\ i # j /\ Pending(i) /\ Pending(j)
          /\ FriendRequest[i].sender # FriendRequest[i].recipient )
        => ~SamePair(i, j)

\* C2: in every reachable state, every FriendRequest whose stored status is
\* accepted has its sender in the recipient's friends and its recipient in the
\* sender's friends.
C2_AcceptedAreFriends ==
    \A i \in DOMAIN FriendRequest :
        FriendRequest[i].Status = "accepted"
        => /\ FriendRequest[i].sender \in friends(FriendRequest[i].recipient)
           /\ FriendRequest[i].recipient \in friends(FriendRequest[i].sender)

\* The case of C2: some stored request has status accepted.
C2_SomeAccepted ==
    \E i \in DOMAIN FriendRequest : FriendRequest[i].Status = "accepted"

\* C3: in every reachable state the friends relation is symmetric: A is in
\* B.friends iff B is in A.friends.
C3_FriendsSymmetric ==
    \A a, b \in DOMAIN User : (a \in friends(b)) <=> (b \in friends(a))

\* C4: in every reachable state no user is a member of their own friends set.
C4_NoSelfFriend ==
    \A u \in DOMAIN User : u \notin friends(u)

\* What C5 requires of every step.
C5_DuplicateRejected_Step ==
    /\ Received =>
        \A u \in DOMAIN User, s \in IdStrings(Len(User)) :
            ( /\ castObjectId(s) # CastError
              /\ RequestBetween(u, castObjectId(s))
              /\ sendFriendRequest(u, s) )
            => /\ FriendRequest' = FriendRequest
               /\ \/ SendGoesOn(u, s)
                  \/ AnsweredAtOnce /\ res'.op = "send" /\ res'.status = 400
    /\ \A inv \in InFlight :
        ( /\ RequestBetween(inv.user, SendTarget(inv))
          /\ sendFindExisting(inv) )
        => /\ FriendRequest' = FriendRequest
           /\ Return(inv) /\ res'.op = "send" /\ res'.status = 400
    /\ \A inv \in InFlight :
        sendSave(inv) => ~RequestBetween(inv.user, SendTarget(inv))

\* C5: when handlers run one at a time and a FriendRequest already exists
\* between A and B (either direction, any status), sendFriendRequest from A to
\* B and from B to A answers 400 and creates no FriendRequest: no step of such
\* a handler changes the collection, none of them reaches the save, and the
\* answer of each is a 400.
C5_DuplicateRejected == [][C5_DuplicateRejected_Step]_vars

\* C5 witness: a send was answered "already exists" while a request between
\* the pair was stored, and nothing was added.
C5_Witness ==
    /\ res.op = "send" /\ res.status = 400
    /\ res.body.message = "A friend request already exists between you and this user."
    /\ Len(FriendRequest) = 1
    /\ InFlight = {}

\* What C6 requires of every step.
C6_FriendRejected_Step ==
    /\ Received =>
        \A u \in DOMAIN User, s \in IdStrings(Len(User)) :
            ( /\ castObjectId(s) \in DOMAIN User
              /\ castObjectId(s) \in friends(u)
              /\ sendFriendRequest(u, s) )
            => /\ AnsweredAtOnce
               /\ res'.op = "send" /\ res'.status = 400
    /\ \A inv \in InFlight :
        sendSave(inv) => SendTarget(inv) \notin friends(inv.user)

\* C6: whenever the recipient is already in the sender's friends set,
\* sendFriendRequest(sender, recipient) answers 400 and creates no
\* FriendRequest.
C6_FriendRejected == [][C6_FriendRejected_Step]_vars

\* What C7 requires of every step.
C7_SelfRequestRejected_Step ==
    /\ Received =>
        \A u \in DOMAIN User, s \in IdStrings(Len(User)) :
            ( /\ castObjectId(s) = u
              /\ sendFriendRequest(u, s) )
            => /\ AnsweredAtOnce
               /\ res'.op = "send" /\ res'.status = 400
               /\ FriendRequest' = FriendRequest
    /\ \A inv \in InFlight :
        sendSave(inv) => SendTarget(inv) # inv.user

\* C7: a sendFriendRequest whose path id is the caller's own id answers 400
\* and creates no FriendRequest record: no stored request has the same user
\* as sender and recipient, and a send naming the caller is answered 400.
C7_SelfRequestRejected == [][C7_SelfRequestRejected_Step]_vars

\* What C8 requires of every step.
C8_RecipientNotFound_Step ==
    Received =>
        \A u \in DOMAIN User, s \in IdStrings(Len(User)) :
            ( /\ castObjectId(s) # CastError
              /\ castObjectId(s) # u
              /\ castObjectId(s) \notin DOMAIN User
              /\ sendFriendRequest(u, s) )
            => /\ AnsweredAtOnce
               /\ res' = Respond("send", 404, "Recipient not found.")
               /\ FriendRequest' = FriendRequest

\* C8: sendFriendRequest from A to a well-formed id that is not A's and
\* belongs to no user answers 404 and creates no FriendRequest.
C8_RecipientNotFound == [][C8_RecipientNotFound_Step]_vars

\* C8 witness: a send was answered 404.
C8_Witness ==
    /\ res.op = "send" /\ res.status = 404
    /\ Len(User) >= 1

\* What C9 requires of the three steps of a send, up to the response body.
C9_ChecksThenSave ==
    /\ Received =>
        \A u \in DOMAIN User, s \in IdStrings(Len(User)) :
            ( /\ castObjectId(s) \in DOMAIN User
              /\ castObjectId(s) # u
              /\ u \notin friends(castObjectId(s))
              /\ sendFriendRequest(u, s) )
            => SendGoesOn(u, s)
    /\ \A inv \in InFlight :
        ( /\ ~RequestBetween(inv.user, SendTarget(inv))
          /\ sendFindExisting(inv) )
        => Move(inv, "save")
    /\ \A inv \in InFlight :
        sendSave(inv)
        => /\ FriendRequest' = Append(FriendRequest,
                [sender |-> inv.user, recipient |-> SendTarget(inv),
                 Status |-> "pending"])
           /\ res'.op = "send" /\ res'.status = 201

\* The 201 body names the created request: it has a member besides `message`.
C9_BodyHasIdentifier ==
    \A inv \in InFlight : sendSave(inv) => (DOMAIN res'.body) \ {"message"} # {}

\* The 201 body is {message} and nothing else.
C9_BodyIsMessage ==
    \A inv \in InFlight : sendSave(inv) => DOMAIN res'.body = {"message"}

\* C9 as stated: a sendFriendRequest from A to existing user B that passes the
\* four checks adds exactly one FriendRequest with sender A, recipient B and
\* status pending, and its 201 response returns the identifier of the created
\* request.
C9_ReturnsIdentifier == [][C9_ChecksThenSave /\ C9_BodyHasIdentifier]_vars

\* C9 amended: a sendFriendRequest from A to existing user B that passes the
\* four checks (A # B, B exists, A not in B.friends, no request between A and
\* B) appends exactly one FriendRequest with sender A, recipient B and Status
\* pending, and answers 201 with a body that holds a message and no
\* identifier.
C9_CreatesPending == [][C9_ChecksThenSave /\ C9_BodyIsMessage]_vars

\* C9 witness: a send was answered 201 and its request is stored, pending.
C9_Witness ==
    /\ res.op = "send" /\ res.status = 201
    /\ Len(FriendRequest) >= 1
    /\ FriendRequest[Len(FriendRequest)].Status = "pending"
    /\ FriendRequest[Len(FriendRequest)].sender # FriendRequest[Len(FriendRequest)].recipient

\* What C10 requires of every step.
C10_OnlyRecipientAccepts_Step ==
    /\ Received =>
        \A u \in DOMAIN User, s \in RequestIdStrings :
            ( /\ castObjectId(s) \in DOMAIN FriendRequest
              /\ FriendRequest[castObjectId(s)].recipient # u
              /\ acceptFriendRequest(u, s) )
            => /\ AnsweredAtOnce
               /\ res' = Respond("accept", 403, "You are not authorized to accept this friend request")
               /\ User' = User /\ FriendRequest' = FriendRequest
    /\ \A inv \in InFlight :
        (acceptSave(inv) \/ acceptUpdateSender(inv) \/ acceptUpdateRecipient(inv))
        => inv.user = FriendRequest[inv.doc.id].recipient

\* C10: acceptFriendRequest on an existing request goes on only when the
\* caller is the request's recipient; a call by anyone else (the sender, a
\* third user) answers 403 and writes nothing, and a 200 is only ever sent to
\* the recipient.
C10_OnlyRecipientAccepts == [][C10_OnlyRecipientAccepts_Step]_vars

\* C10 witness: with three users, an accept of a stored request has been
\* answered 403.
C10_Witness ==
    /\ res.op = "accept" /\ res.status = 403
    /\ Len(User) = 3
    /\ Len(FriendRequest) = 1

\* What C11 requires of every step.
C11_RequestNotFound_Step ==
    Received =>
        \A u \in DOMAIN User, s \in RequestIdStrings :
            ( /\ castObjectId(s) # CastError
              /\ castObjectId(s) \notin DOMAIN FriendRequest
              /\ acceptFriendRequest(u, s) )
            => /\ AnsweredAtOnce
               /\ res' = Respond("accept", 404, "Friend request not found")
               /\ User' = User /\ FriendRequest' = FriendRequest

\* C11: acceptFriendRequest with a well-formed request id that is the id of
\* no stored FriendRequest answers 404 "Friend request not found" and writes
\* nothing, whoever the caller is.
C11_RequestNotFound == [][C11_RequestNotFound_Step]_vars

\* C11 witness: an accept was answered 404 while a request is stored.
C11_Witness ==
    /\ res.op = "accept" /\ res.status = 404
    /\ Len(FriendRequest) >= 1

\* The members of u's friends array after the step.
friendsAfter(u) == Range(User'[u].friends)

\* The two users of the request an accept invocation loaded hold each other
\* after the step.
MutualAfter(inv) ==
    /\ inv.doc.sender \in friendsAfter(inv.doc.recipient)
    /\ inv.doc.recipient \in friendsAfter(inv.doc.sender)

\* What C12 requires of the step that answers an accept with 200.
C12_AcceptStoresAccepted_Step ==
    \A inv \in InFlight :
        (inv.doc.sender # inv.doc.recipient /\ acceptUpdateRecipient(inv))
        => /\ res'.status = 200
           /\ FriendRequest'[inv.doc.id].Status = "accepted"
           /\ MutualAfter(inv)

\* C12: with handlers run one at a time, when acceptFriendRequest by the
\* recipient of pending request r (from another user) answers 200, the
\* stored status of r is accepted, r.sender is in r.recipient's friends and
\* r.recipient is in r.sender's friends.
C12_AcceptStoresAccepted == [][C12_AcceptStoresAccepted_Step]_vars

\* The part of C12 about the friends arrays alone (it holds with handlers run
\* one at a time).
C12_FriendsPart ==
    [][\A inv \in InFlight : acceptUpdateRecipient(inv) => MutualAfter(inv)]_vars

\* The two users of request i hold each other: the state an accept of i
\* run alone leaves.
Mutual(i) ==
    /\ FriendRequest[i].sender \in friends(FriendRequest[i].recipient)
    /\ FriendRequest[i].recipient \in friends(FriendRequest[i].sender)

\* What C13 requires of the four steps of a further accept.
C13_SecondAcceptIdempotent_Step ==
    /\ Received =>
        \A u \in DOMAIN User, s \in RequestIdStrings :
            ( /\ castObjectId(s) \in DOMAIN FriendRequest
              /\ FriendRequest[castObjectId(s)].recipient = u
              /\ Mutual(castObjectId(s))
              /\ acceptFriendRequest(u, s) )
            => /\ ~AnsweredAtOnce
               /\ User' = User /\ FriendRequest' = FriendRequest
    /\ \A inv \in InFlight :
        ( /\ inv.op = "accept"
          /\ Mutual(inv.doc.id)
          /\ acceptSave(inv) \/ acceptUpdateSender(inv) \/ acceptUpdateRecipient(inv) )
        => /\ User' = User /\ FriendRequest' = FriendRequest
           /\ acceptUpdateRecipient(inv)
                => res' = Respond("accept", 200, "Friend request accepted")

\* C13: with handlers run one at a time, an acceptFriendRequest by the
\* recipient of a request whose two users already hold each other (the state
\* the first accept left) runs through its three writes without an error,
\* answers 200 and leaves the whole store as it was: the stored request and
\* both friends arrays are unchanged, so each user holds the other as often
\* as before, once where the first accept added the member.
C13_SecondAcceptIdempotent == [][C13_SecondAcceptIdempotent_Step]_vars

\* C13 witness: two users, one request, five requests served of which the
\* last is an accept answered 200, and each user holds the other once.
C13_Witness ==
    /\ res = Respond("accept", 200, "Friend request accepted")
    /\ ops = 5 /\ InFlight = {}
    /\ Len(User) = 2 /\ Len(FriendRequest) = 1
    /\ FriendRequest[1].sender # FriendRequest[1].recipient
    /\ User[FriendRequest[1].sender].friends = <<FriendRequest[1].recipient>>
    /\ User[FriendRequest[1].recipient].friends = <<FriendRequest[1].sender>>

\* How often x occurs in the array arr.
Occurrences(arr, x) == Cardinality({k \in 1..Len(arr) : arr[k] = x})

\* After the step each user of the request that inv loaded holds the other
\* exactly once.
OnceEachAfter(inv) ==
    /\ Occurrences(User'[inv.doc.sender].friends, inv.doc.recipient) = 1
    /\ Occurrences(User'[inv.doc.recipient].friends, inv.doc.sender) = 1

\* Another accept of the request that inv loaded is in flight after the step.
OtherAcceptAfter(inv) ==
    \E other \in BagToSet(handler') :
        other.op = "accept" /\ other.doc.id = inv.doc.id

\* What C14 requires of the step that answers an accept with 200.
C14_ConcurrentAccepts_Step ==
    \A inv \in InFlight :
        (inv.doc.sender # inv.doc.recipient /\ acceptUpdateRecipient(inv))
        => /\ res' = Respond("accept", 200, "Friend request accepted")
           /\ ~OtherAcceptAfter(inv)
                => /\ FriendRequest'[inv.doc.id].Status = "accepted"
                   /\ OnceEachAfter(inv)

\* C14: when acceptFriendRequest calls on one request by its recipient run
\* concurrently, under every interleaving each call answers 200 and, once the
\* last of them has answered, the store is the one a single accept is to
\* produce: the stored status is accepted and each of the two users holds
\* the other exactly once.
C14_ConcurrentAccepts == [][C14_ConcurrentAccepts_Step]_vars

\* What C15 requires of every step.
C15_StatusTransitions_Step ==
    /\ \A i \in DOMAIN FriendRequest :
        FriendRequest'[i].Status # FriendRequest[i].Status
        => /\ FriendRequest[i].Status = "pending"
           /\ FriendRequest'[i].Status \in {"accepted", "rejected"}
    /\ \A u \in DOMAIN User :
        User'[u].friends # User[u].friends
        => \E inv \in InFlight :
              /\ acceptUpdateSender(inv) \/ acceptUpdateRecipient(inv)
              /\ inv.doc.Status = "pending"
              /\ FriendRequest[inv.doc.id].Status = "accepted"

\* C15: along every execution the stored status of a FriendRequest changes
\* only from pending to accepted or from pending to rejected, and a user's
\* friends array is changed only by the writes of an accept that has moved
\* its request from pending to accepted.
C15_StatusTransitions == [][C15_StatusTransitions_Step]_vars

\* What C16 requires of every step.
C16_FriendsOnlyGrowByAccept_Step ==
    \A u \in DOMAIN User :
        User'[u].friends # User[u].friends
        => /\ \E inv \in InFlight :
                 acceptUpdateSender(inv) \/ acceptUpdateRecipient(inv)
           /\ friends(u) \subseteq friendsAfter(u)

\* C16: a user's friends array changes only in the two user writes of
\* acceptFriendRequest, and only by gaining members: signup, onboard with
\* any body, sendFriendRequest and the list handlers leave every friends
\* array as it is, and no step removes a member.
C16_FriendsOnlyGrowByAccept == [][C16_FriendsOnlyGrowByAccept_Step]_vars

\* The state of C17's scenario and a further send from A = u to B: the path
\* id s names another user, a request between the two is stored and the two
\* hold each other.
C17_Scenario(u, s) ==
    /\ castObjectId(s) \in DOMAIN User
    /\ castObjectId(s) # u
    /\ RequestBetween(u, castObjectId(s))
    /\ u \in friends(castObjectId(s))
    /\ castObjectId(s) \in friends(u)

\* C17 as stated: after send(A to B) and accept by B with A and B holding
\* each other, a further sendFriendRequest from A to B is answered 400 as a
\* duplicate request, with the message that a friend request already exists
\* between the two users.
C17_ResendIsDuplicate ==
    [][Received =>
        \A u \in DOMAIN User, s \in IdStrings(Len(User)) :
            (C17_Scenario(u, s) /\ sendFriendRequest(u, s))
            => res' = Respond("send", 400,
                   "A friend request already exists between you and this user.")]_vars

\* C17 amended: in that state a further sendFriendRequest from A to B is
\* answered 400 at once by the already-friends check, with the message "You
\* are already friends with this user.", and creates no request.
C17_ResendIsAlreadyFriends ==
    [][Received =>
        \A u \in DOMAIN User, s \in IdStrings(Len(User)) :
            (C17_Scenario(u, s) /\ sendFriendRequest(u, s))
            => /\ AnsweredAtOnce
               /\ res' = Respond("send", 400, "You are already friends with this user.")
               /\ FriendRequest' = FriendRequest]_vars

\* C17 witness: two users and the one request between them, each holding the
\* other, five requests served, the last a send answered "already friends".
C17_Witness ==
    /\ res = Respond("send", 400, "You are already friends with this user.")
    /\ ops = 5 /\ InFlight = {}
    /\ Len(User) = 2 /\ Len(FriendRequest) = 1
    /\ FriendRequest[1].sender # FriendRequest[1].recipient
    /\ Mutual(1)

\* The stored requests addressed to u whose stored status is pending.
PendingFor(u) ==
    {i \in DOMAIN FriendRequest : FriendRequest[i].recipient = u /\ Pending(i)}

\* No stored request has one user as sender and recipient.
NoSelfRequest ==
    \A i \in DOMAIN FriendRequest : FriendRequest[i].sender # FriendRequest[i].recipient

\* C18: in every reachable state (stated here for stores without a
\* self-request) getFriendRequests for user U answers with exactly the stored
\* FriendRequests whose recipient is U and whose status is pending.
C18_ListsPendingIncoming ==
    [][Received =>
        \A u \in DOMAIN User :
            (NoSelfRequest /\ getFriendRequests(u))
            => res'.body.friendRequests = PendingFor(u)]_vars

\* The users C19 names for caller u: not u, not in u's friends, onboarded.
RecommendableTo(u) ==
    {v \in DOMAIN User : v # u /\ v \notin friends(u) /\ User[v].isOnboarded}

\* The friends array protectRoute loaded for inv is the stored one: no write
\* to it has come between the two reads of the call.
FriendsAsLoaded(inv) == inv.friends = User[inv.user].friends

C19_AgainstStoredFriends ==
    [][\A inv \in InFlight :
          (inv.op = "getRecommendedUsers" /\ recommendedFind(inv))
          => res'.body.recommendedUsers = RecommendableTo(inv.user)]_vars

\* What getRecommendedUsers answers to u when called in this state with no
\* other handler in flight.
RecommendedNow(u) == findRecommended(toString(u), User[u].friends)

\* What C20 requires of the steps of a send to a recommended user.
C20_RecommendedCanBeSent_Step ==
    /\ Received =>
        \A u \in DOMAIN User :
            \A v \in RecommendedNow(u) :
                (u \notin friends(v) /\ sendFriendRequest(u, toString(v)))
                => SendGoesOn(u, toString(v))
    /\ \A inv \in InFlight :
        ( /\ inv.op = "send"
          /\ inv.param = toString(SendTarget(inv))
          /\ SendTarget(inv) \in RecommendedNow(inv.user)
          /\ sendFindExisting(inv) )
        => Move(inv, "save")
    /\ \A inv \in InFlight :
        sendSave(inv) => res' = Respond("send", 201, "Friend request sent successfully.")

\* C20: with handlers run one at a time, a sendFriendRequest from U to a
\* user that getRecommendedUsers returns to U in the state the send starts
\* in passes every check and is answered 201, also when a request between
\* the two is already stored (stated here for users who do not hold U in
\* their own friends array).
C20_RecommendedCanBeSent == [][C20_RecommendedCanBeSent_Step]_vars

\* ValidSession: the cookie carries a token this server signed, not expired,
\* for a stored user.
ValidSession(token) == token.sig = "signed" /\ token.UserId \in DOMAIN User

\* The invocations a step starts.
Started ==
    {inv \in BagToSet(handler') : CopiesIn(inv, handler') > CopiesIn(inv, handler)}

C21_NoHandlerWithoutSession_Step ==
    Received =>
        \A token \in Tokens :
            usersRoute(token) =>
                IF ValidSession(token)
                THEN /\ \/ Started # {}
                        \/ res'.op \in {"send", "accept", "getFriendRequests"}
                     /\ \A inv \in Started : inv.user = token.UserId
                ELSE /\ res' = Respond("protectRoute", 401, res'.body.message)
                     /\ UNCHANGED <<User, FriendRequest, handler>>

C22_StreamUserAfterSignup ==
    (res.op = "signup" /\ res.status = 201) => res.body.user \in StreamUser


\* The two failed logins the claim compares.
UnknownEmail(email) == email # Missing /\ findOne(email) = {}
WrongPassword(email, password) ==
    /\ findOne(email) # {}
    /\ \A u \in findOne(email) : ~matchPassword(User[u], password)

\* What a client sees of a login with this body, sent now.
LoginObservable(email, password) ==
    LET r == loginResult(email, password) IN
    [response |-> Respond("login", r.status, r.message), cookie |-> r.cookie]

C23_LoginTellsNothing_Step ==
    Received =>
        \A c \in Clients, e1 \in Emails, p1 \in Passwords :
            (UnknownEmail(e1) /\ login(c, e1, p1)) =>
                /\ res' = Respond("login", 401, "Invalid email or password")
                /\ UNCHANGED client
                /\ \A e2 \in Emails, p2 \in Passwords :
                      WrongPassword(e2, p2) =>
                          LoginObservable(e2, p2) = [response |-> res', cookie |-> NoToken]

\* C23: a login with an email no user has and a login with a registered
\* email and a wrong password get the same response, 401 with the same
\* message, and neither sets a cookie.
C23_LoginTellsNothing == [][C23_LoginTellsNothing_Step]_vars

\* A login with an unknown email was refused while another email was
\* registered.
C23_Witness ==
    /\ res = Respond("login", 401, "Invalid email or password")
    /\ \E e \in Emails : UnknownEmail(e)
    /\ \E e \in Emails, p \in Passwords : WrongPassword(e, p)


\* The client's last successful call of signup, login and logout.
LoggedOut(c) == client[c].last = "logout"
LoggedIn(c) == client[c].last \in {"signup", "login"}

\* protectRoute let the request of c through, as the user of its cookie.
Admitted(c) ==
    res' = [op |-> "me", status |-> 200,
            body |-> [success |-> TRUE, user |-> client[c].cookie.UserId]]

C24_LogoutEndsSession_Step ==
    Received =>
        \A c \in Clients :
            me(c) =>
                /\ LoggedOut(c) => res'.op = "protectRoute" /\ res'.status = 401
                /\ LoggedIn(c) => Admitted(c)

C24_WhileCookieLasts_Step ==
    Received =>
        \A c \in Clients :
            me(c) =>
                /\ LoggedOut(c) => res'.op = "protectRoute" /\ res'.status = 401
                /\ (LoggedIn(c) /\ client[c].cookie # NoToken) => Admitted(c)

C25_OneUserPerEmail ==
    \A i, j \in DOMAIN User : i # j => User[i].email # User[j].email

\* Two signups with one email both passed User.findOne; the first created
\* the user and the second was refused by the store.
C25_Witness ==
    /\ res = Respond("signup", 500, "Internal Server Error")
    /\ \E u \in DOMAIN User : User[u].email \in Emails


\* C26: while no authenticated user is known (the auth query is pending or
\* has failed), the paths /, /notifications, /onboarding, /chat and /call
\* render a redirect to /login and never their page; while one is known,
\* /login and /signup render a redirect to /.
C26_RouteGuards ==
    /\ (authUser(authData) = 0 /\
        location \in {"/", "/notifications", "/onboarding", "/chat", "/call"})
           => element = Navigate("/login")
    /\ (authUser(authData) # 0 /\ location \in {"/login", "/signup"})
           => element = Navigate("/")

\* The auth query has failed and the router, at /chat, renders the redirect.
C26_Witness ==
    /\ authData.status = "error"
    /\ location = "/chat"
    /\ element = Navigate("/login")

C27_SentUserLeavesList_Step ==
    \A call \in BagToSet(posts) :
        /\ postSettles(call, TRUE) =>
              /\ call.userId \notin home'.recommendedUsers
              /\ home'.recommendedUsers \subseteq home.recommendedUsers
        /\ postSettles(call, FALSE) =>
              home'.recommendedUsers = home.recommendedUsers

\* C27: when a send to X succeeds, X leaves the displayed recommended list
\* and no user whose send succeeded before comes back into it, also with
\* two sends in flight together; a send that fails leaves the list as it is.
C27_SentUserLeavesList == [][C27_SentUserLeavesList_Step]_vars


\* An accept of request i was cut short between its second and its third
\* write: the sender holds the recipient, the recipient not the sender.
CutShort(i) ==
    /\ i \in DOMAIN FriendRequest
    /\ FriendRequest[i].recipient \in friends(FriendRequest[i].sender)
    /\ FriendRequest[i].sender \notin friends(FriendRequest[i].recipient)

C28_RetryCompletesAccept_Step ==
    /\ Received =>
          \A u \in DOMAIN User, s \in RequestIdStrings :
              (/\ CutShort(castObjectId(s))
               /\ FriendRequest[castObjectId(s)].recipient = u
               /\ acceptFriendRequest(u, s))
                  => \E inv \in BagToSet(handler') : inv.op = "accept" /\ inv.user = u
    /\ \A inv \in InFlight :
          acceptUpdateRecipient(inv) =>
              /\ res' = Respond("accept", 200, "Friend request accepted")
              /\ MutualAfter(inv)
              /\ OnceEachAfter(inv)
              /\ FriendRequest'[inv.doc.id] = friendRequestSchema(inv.doc.sender, inv.doc.recipient)

\* C28: after an accept that a storage failure cut short after some of its
\* writes, a later accept of the request by the recipient is let through,
\* and when it completes the store is what one uninterrupted accept leaves:
\* the request as that accept saves it, each of the two users in the
\* other's friends exactly once.
C28_RetryCompletesAccept == [][C28_RetryCompletesAccept_Step]_vars

\* The last answer was the 500 of an accept cut short after its second
\* write, and the recipient's next accept has reached its last write.
C28_Witness ==
    /\ res = Respond("accept", 500, "Internal Server Error")
    /\ \E inv \in InFlight :
          /\ inv.op = "accept" /\ inv.pc = "updateRecipient"
          /\ CutShort(inv.doc.id)


\* Request i is between a and b and is stored as accepted.
AcceptedBetween(i, a, b) ==
    /\ \/ FriendRequest[i].sender = a /\ FriendRequest[i].recipient = b
       \/ FriendRequest[i].sender = b /\ FriendRequest[i].recipient = a
    /\ \/ matches(FriendRequest[i], "status", "accepted")
       \/ matches(FriendRequest[i], "Status", "accepted")

\* C29: whenever a is in b's friends, a request between a and b is stored
\* whose stored status is accepted.
C29_FriendshipHasAcceptedRequest ==
    \A b \in DOMAIN User : \A a \in friends(b) :
        \E i \in DOMAIN FriendRequest : AcceptedBetween(i, a, b)

\* The step answers a send or an accept with an error status.
AnswersError ==
    /\ res'.op \in {"send", "accept"}
    /\ res'.status \in {400, 403, 404}

StoreUnchanged == UNCHANGED <<User, FriendRequest>>

C30_ErrorsWriteNothing_Step ==
    /\ Received =>
          /\ \A u \in DOMAIN User, s \in IdStrings(Len(User)) :
                sendFriendRequest(u, s) => StoreUnchanged
          /\ \A u \in DOMAIN User, s \in RequestIdStrings :
                acceptFriendRequest(u, s) => StoreUnchanged
    /\ \A inv \in InFlight :
          (sendFindExisting(inv) /\ AnswersError) => StoreUnchanged

\* C30: a send or an accept that answers 400, 403 or 404 has written
\* nothing: no step of the call, from its receipt to its answer, changes a
\* FriendRequest record or a user's friends.
C30_ErrorsWriteNothing == [][C30_ErrorsWriteNothing_Step]_vars

\* A send was answered 400 by its existing-request test, after its await.
C30_Witness ==
    /\ res = Respond("send", 400, "A friend request already exists between you and this user.")
    /\ FriendRequest # <<>>


====
